---- MODULE Spec2Model ----
(***************************************************************************)
(* The annotation canvas (Canvas component, src/unnamed/part_001) together *)
(* with the parts of its host (src/App.tsx) that replace the annotation    *)
(* list, change the tool mode, the selection and the edited image.         *)
(*                                                                         *)
(* Every action is one event handler run to completion, followed by the    *)
(* React render it schedules and the history effect of that render         *)
(* (part_001 lines 66-93).  An annotation list is a JavaScript array: it   *)
(* has an identity (field ref) besides its contents (field boxes), and the *)
(* code compares lists by identity (!==).                                  *)
(*                                                                         *)
(* Normalised box coordinates are kept exactly, as numerators over fixed   *)
(* denominators: x over 2*width, y over 2*height, w over width, h over     *)
(* height.                                                                 *)
(***************************************************************************)
EXTENDS Integers, Sequences, FiniteSets, TLC

\* ---------------------------------------------------------------- bounds
\* number of events (handler runs) of a run
MaxEvents == 5
\* largest pan offset, per axis, in viewport pixels
MaxPan == 6
\* image frame, in pixels
FrameW == 16
FrameH == 16
\* longest list of candidate lines getClosestSnap is applied to on its own
MaxLines == 3

\* ------------------------------------------------------------- constants
\* minimum size of a drawn rectangle (exclusive)
MinDrawSize == 5
\* radius of a corner handle in screen pixels
HandleRadius == 4
\* zoom factor of the view
Zoom == 1

\* pointer positions (clientX, clientY) the events are drawn from
Points == { <<4, 4>>, <<8, 8>>, <<14, 14>> }
\* configured snap distances in screen pixels (0 disables snapping)
SnapDists == {3}
ImageIds == {1, 2}
Labels == {1}
Modes == {"SELECT", "DRAW", "PAN", "MAGIC_BOX"}
\* corner handles the resize gestures start from
Handles == {"tl", "tr", "bl", "br"}
\* number of boxes a model run returns
AutoLabelCounts == {1}

\* --------------------------------------------------------------- values
\* null for string | null ids
NoId == 0
NullPoint == [set |-> FALSE, x |-> 0, y |-> 0]
NullRect == [set |-> FALSE, x |-> 0, y |-> 0, w |-> 0, h |-> 0]
NoLines == [x |-> <<>>, y |-> <<>>]

Pt(x, y) == [set |-> TRUE, x |-> x, y |-> y]
Rect(x, y, w, h) == [set |-> TRUE, x |-> x, y |-> y, w |-> w, h |-> h]

Min(a, b) == IF a < b THEN a ELSE b
Abs(a) == IF a < 0 THEN -a ELSE a

\* ------------------------------------------------- coordinate transform
\* a normalised coordinate is a fraction of the image size: the model holds
\* its numerator over Den, a multiple of twice every frame size it uses, so
\* that the conversions of whole-pixel rectangles are exact
Den == 4 * FrameW * FrameH

\* a box read as top-left corner and size, not as centre and size
yoloToSvgTopLeft(ann, width, height) ==
  Rect((ann.x * width) \div Den, (ann.y * height) \div Den,
       (ann.w * width) \div Den, (ann.h * height) \div Den)

\* pixel rect (top-left form) of a normalised box:
\* w = box.w * width, x = box.x * width - w / 2
yoloToSvg(ann, width, height) ==
  Rect((2 * ann.x * width - ann.w * width) \div (2 * Den),
       (2 * ann.y * height - ann.h * height) \div (2 * Den),
       (ann.w * width) \div Den, (ann.h * height) \div Den)

\* normalised centre/size of a pixel rect: x = (x + w / 2) / width, w = w / width
svgToYolo(x, y, w, h, width, height) ==
  [x |-> ((2 * x + w) * Den) \div (2 * width),
   y |-> ((2 * y + h) * Den) \div (2 * height),
   w |-> (w * Den) \div width,
   h |-> (h * Den) \div height]

Box(id, labelId, x, y, w, h) ==
  [id |-> id, labelId |-> labelId] @@ svgToYolo(x, y, w, h, FrameW, FrameH)

\* { ...a, ...newYolo }
WithGeometry(a, g) ==
  [id |-> a.id, labelId |-> a.labelId, x |-> g.x, y |-> g.y, w |-> g.w, h |-> g.h]

\* an array: identity and contents; img records (for observation only) the
\* image the array was made for
List(ref, img, boxes) == [ref |-> ref, img |-> img, boxes |-> boxes]

\* the images the host holds when the editor opens
InitialImages ==
  [i \in ImageIds |->
     IF i = 1 THEN List(1, 1, << Box(1, 1, 4, 4, 8, 8) >>)
     ELSE List(2, 2, << >>)]

Ids(boxes) == { boxes[i].id : i \in 1..Len(boxes) }

\* annotations.find(a => a.id === id) succeeds
Has(boxes, id) == \E i \in 1..Len(boxes) : boxes[i].id = id
Find(boxes, id) == boxes[CHOOSE i \in 1..Len(boxes) : boxes[i].id = id]

\* an update that keeps only the edited annotation
MapGeometryOnly(boxes, id, g) ==
  IF \E i \in 1..Len(boxes) : boxes[i].id = id
  THEN << WithGeometry(boxes[CHOOSE i \in 1..Len(boxes) : boxes[i].id = id], g) >>
  ELSE << >>

\* annotations.map(a => a.id === id ? { ...a, ...g } : a)
MapGeometry(boxes, id, g) ==
  [i \in 1..Len(boxes) |->
     IF boxes[i].id = id THEN WithGeometry(boxes[i], g) ELSE boxes[i]]

\* annotations.filter(a => a.id !== id)
RECURSIVE Without(_, _)
Without(boxes, id) ==
  IF boxes = << >> THEN << >>
  ELSE IF Head(boxes).id = id THEN Without(Tail(boxes), id)
       ELSE << Head(boxes) >> \o Without(Tail(boxes), id)

\* ----------------------------------------------------------- snap engine
RECURSIVE EdgeLinesX(_, _)
EdgeLinesX(boxes, excludeId) ==
  IF boxes = << >> THEN << >>
  ELSE LET ann == Head(boxes)
           rect == yoloToSvg(ann, FrameW, FrameH)
       IN (IF ann.id = excludeId THEN << >> ELSE << rect.x, rect.x + rect.w >>)
          \o EdgeLinesX(Tail(boxes), excludeId)

RECURSIVE EdgeLinesY(_, _)
EdgeLinesY(boxes, excludeId) ==
  IF boxes = << >> THEN << >>
  ELSE LET ann == Head(boxes)
           rect == yoloToSvg(ann, FrameW, FrameH)
       IN (IF ann.id = excludeId THEN << >> ELSE << rect.y, rect.y + rect.h >>)
          \o EdgeLinesY(Tail(boxes), excludeId)

\* candidate lines that include the edges of the edited annotation
getSnapLinesAll(boxes, excludeId) ==
  [xLines |-> << 0, FrameW >> \o EdgeLinesX(boxes, NoId),
   yLines |-> << 0, FrameH >> \o EdgeLinesY(boxes, NoId)]

\* lines 138-149
getSnapLines(boxes, excludeId) ==
  [xLines |-> << 0, FrameW >> \o EdgeLinesX(boxes, excludeId),
   yLines |-> << 0, FrameH >> \o EdgeLinesY(boxes, excludeId)]

\* a scan that also takes a candidate at the same distance as the best so far
RECURSIVE SnapScanInclusive(_, _, _)
SnapScanInclusive(val, lines, acc) ==
  IF lines = << >> THEN acc
  ELSE LET d == Abs(val - Head(lines))
       IN SnapScanInclusive(val, Tail(lines),
                            IF d <= acc.minD
                            THEN [val |-> Head(lines), snapped |-> TRUE, minD |-> d]
                            ELSE acc)

\* a search without the test of the configured distance, over the inclusive scan
getClosestSnapInclusive(val, lines, threshold, snapDist) ==
  LET r == SnapScanInclusive(val, lines,
                             [val |-> val, snapped |-> FALSE, minD |-> threshold])
  IN [val |-> r.val, snapped |-> r.snapped]

\* the forEach of getClosestSnap: acc = [val, snapped, minD]
RECURSIVE SnapScan(_, _, _)
SnapScan(val, lines, acc) ==
  IF lines = << >> THEN acc
  ELSE LET d == Abs(val - Head(lines))
       IN SnapScan(val, Tail(lines),
                   IF d < acc.minD
                   THEN [val |-> Head(lines), snapped |-> TRUE, minD |-> d]
                   ELSE acc)

getClosestSnap(val, lines, threshold, snapDist) ==
  IF snapDist <= 0 THEN [val |-> val, snapped |-> FALSE]
  ELSE LET r == SnapScan(val, lines, [val |-> val, snapped |-> FALSE, minD |-> threshold])
       IN [val |-> r.val, snapped |-> r.snapped]

SnapVisual(s) == IF s.snapped THEN << s.val >> ELSE << >>

\* ---------------------------------------------------------------- state
VARIABLES
  \* host (App): per-image annotation lists, edited image, tool, selection, view
  images, imageId, toolMode, selectedAnnId, currentLabelId, pan, snapPixelDistance,
  \* Canvas interaction state
  isDragging, dragStart, activeCreation, draggingAnnotationId, resizeHandle,
  activeSnapLines, initialMoveRect,
  \* Canvas history state and refs
  undoStack, redoStack, prevAnnotationsRef, prevImageIdRef, isHistoryAction,
  dragStartAnnotationsRef, isUndoRedo,
  \* allocator of array identities and of crypto.randomUUID() ids
  nextRef,
  \* observation of the run (not program state): the last handler that ran,
  \* what it did, and the gesture in progress or just finished
  events, last, called, recorded, gest, replay,
  \* the rectangle handed to a handler outside the Canvas by the last event
  magicBoxRect,
  \* the last event was a pointer-move, and the axes it snapped on
  moveSnap,
  \* the list and the stacks before the last effective undo or redo, and
  \* whether its inverse followed it immediately
  pair,
  \* input and result of one application of getClosestSnap
  snapIn, snapOut,
  \* a conversion of a box to pixels and back, checked on its own
  tripIn, tripOut,
  \* the placement of a moved box on one axis, checked on its own
  axisIn, axisOut,
  \* host (App) storage and asynchrony, checked on their own: the records of
  \* the images store, the sidebar selection, the loaded image, the pending
  \* loadImg, the tab, the closure of the keydown listener, the batch run
  stored, selectedImageId, selectedImageIds, currentImage, isLoadingImage,
  loadImg, activeTab, keyDown, isProcessingAI, showLogModal, batch,
  \* observation: the user's change made while the batch holds a read image,
  \* and the merge the batch has just written
  userEdit, lastMerge

hostVars == << images, imageId, toolMode, selectedAnnId, currentLabelId, pan,
               snapPixelDistance >>
gestureVars == << isDragging, dragStart, activeCreation, draggingAnnotationId,
                  resizeHandle, activeSnapLines, initialMoveRect >>
historyVars == << undoStack, redoStack, prevAnnotationsRef, prevImageIdRef,
                  isHistoryAction, dragStartAnnotationsRef, isUndoRedo >>
obsVars == << events, last, called, recorded, gest, replay, magicBoxRect, moveSnap,
             pair >>
snapVars == << snapIn, snapOut >>
tripVars == << tripIn, tripOut >>
axisVars == << axisIn, axisOut >>
appVars == << stored, selectedImageId, selectedImageIds, currentImage,
              isLoadingImage, loadImg, activeTab, keyDown, isProcessingAI,
              showLogModal, batch, userEdit, lastMerge >>
vars == << hostVars, gestureVars, historyVars, nextRef, obsVars, snapVars, tripVars,
           axisVars, appVars >>

\* image.annotations of the image the Canvas is given
Annotations == images[imageId]

NoGesture ==
  [kind |-> "none", active |-> FALSE, pure |-> TRUE, mode |-> "SELECT",
   ended |-> FALSE, target |-> NoId, list0 |-> List(0, 0, << >>),
   undo0 |-> << >>, redo0 |-> << >>, moves |-> 0, updates |-> 0,
   rect |-> NullRect, sel0 |-> NoId, pan0 |-> [x |-> 0, y |-> 0],
   down |-> NullPoint, at |-> NullPoint]

NoReplay == [step |-> 0, before |-> << >>, after |-> << >>]

NoSnapIn == [val |-> 0, lines |-> << >>, dist |-> 0]
NoSnapOut == [val |-> 0, snapped |-> FALSE, done |-> FALSE]
NoBox == [x |-> 0, y |-> 0, w |-> 0, h |-> 0]
NoTripIn == [frame |-> << FrameW, FrameH >>, box |-> NoBox]
NoTripOut == [rect |-> NullRect, box |-> NoBox, done |-> FALSE]
NoPair == [op |-> "none", list |-> List(0, 0, << >>), undo |-> << >>, redo |-> << >>]
NoMoveSnap == [move |-> FALSE, x |-> FALSE, y |-> FALSE]
NoAxisIn == [raw |-> 0, size |-> 0, lines |-> <<>>, dist |-> 0]
NoAxisOut == [pos |-> 0, line |-> <<>>, done |-> FALSE]

\* an annotation list of the host: img records (for observation only) the
\* image whose record the list was read from; lists derived from it keep it
Anns(img, boxes) == [img |-> img, boxes |-> boxes]
NoLoad == [pending |-> FALSE, id |-> NoId, stored |-> Anns(NoId, << >>)]
NoBatch == [ids |-> << >>, fullImage |-> Anns(NoId, << >>), current |-> NoId]
NoEdit == [kind |-> "none", box |-> NoId, img |-> NoId]
NoMerge == [img |-> NoId, edit |-> NoEdit, added |-> {}]

\* what the keydown listener would capture if its effect ran now
Closure ==
  [selectedImageId |-> selectedImageId, currentImage |-> currentImage,
   selectedAnnId |-> selectedAnnId, activeTab |-> activeTab]

\* the host once the first image of the store is loaded and shown
AppConstructed ==
  /\ stored = [i \in ImageIds |-> Anns(i, InitialImages[i].boxes)]
  /\ selectedImageId = 1
  /\ selectedImageIds = {1}
  /\ currentImage = [id |-> 1, annotations |-> Anns(1, InitialImages[1].boxes)]
  /\ isLoadingImage = FALSE
  /\ loadImg = NoLoad
  /\ activeTab = "editor"
  /\ keyDown = [selectedImageId |-> 1,
                currentImage |-> [id |-> 1,
                                  annotations |-> Anns(1, InitialImages[1].boxes)],
                selectedAnnId |-> NoId, activeTab |-> "editor"]
  /\ isProcessingAI = FALSE
  /\ showLogModal = FALSE
  /\ batch = NoBatch
  /\ userEdit = NoEdit
  /\ lastMerge = NoMerge

CanvasInit ==
  /\ images = InitialImages
  /\ imageId = 1
  /\ toolMode = "SELECT"
  /\ selectedAnnId = NoId
  /\ currentLabelId \in Labels
  /\ pan = [x |-> 0, y |-> 0]
  /\ snapPixelDistance \in SnapDists
  /\ isDragging = FALSE
  /\ dragStart = NullPoint
  /\ activeCreation = NullRect
  /\ draggingAnnotationId = NoId
  /\ resizeHandle = "none"
  /\ activeSnapLines = NoLines
  /\ initialMoveRect = NullRect
  /\ undoStack = << >>
  /\ redoStack = << >>
  /\ prevAnnotationsRef = InitialImages[1]
  /\ prevImageIdRef = 1
  /\ isHistoryAction = FALSE
  /\ dragStartAnnotationsRef = InitialImages[1]
  /\ isUndoRedo = FALSE
  /\ nextRef = 3
  /\ events = 0
  /\ last = "init"
  /\ called = FALSE
  /\ recorded = FALSE
  /\ gest = NoGesture
  /\ replay = NoReplay
  /\ magicBoxRect = NullRect
  /\ moveSnap = NoMoveSnap
  /\ pair = NoPair
  /\ AppConstructed

Init ==
  /\ CanvasInit
  /\ snapIn = NoSnapIn
  /\ snapOut = NoSnapOut
  /\ tripIn = NoTripIn
  /\ tripOut = NoTripOut
  /\ axisIn = NoAxisIn
  /\ axisOut = NoAxisOut

\* ------------------------------------------------------- history effect
\* The history state the effect reads and writes.
History ==
  [undo |-> undoStack, redo |-> redoStack, prevAnns |-> prevAnnotationsRef,
   prevImg |-> prevImageIdRef, isHist |-> isHistoryAction,
   dragStartAnns |-> dragStartAnnotationsRef, isUR |-> isUndoRedo,
   pushed |-> FALSE]

\* The argument the updater of line 86 appends.  React runs a functional
\* updater when it processes the update queue: at the setState call if the
\* component has no update pending from the batch that caused this render
\* (eager), otherwise at the next render, which is after line 90 has
\* reassigned prevAnnotationsRef.current (deferred).
UpdaterArg(deferred, prevAnns, anns) == IF deferred THEN anns ELSE prevAnns

\* the reset that forgets the redo stack
OnImageSwitchKeepRedo(h, id, anns) ==
  [h EXCEPT !.undo = << >>, !.prevImg = id, !.prevAnns = anns]

\* lines 68-73: the image changed, history is reset
OnImageSwitch(h, id, anns) ==
  [h EXCEPT !.undo = << >>, !.redo = << >>, !.prevImg = id, !.prevAnns = anns]

\* change detection that does not look at isHistoryAction
SuppressedNever(h) == FALSE

\* line 80: a gesture is in progress, the change is not recorded here
Suppressed(h) == h.isHist

\* change detection that does not look at isUndoRedo
ReplayedNever(h) == FALSE

\* line 85: the change was made by performUndo/performRedo
Replayed(h) == h.isUR

\* useEffect(..., [image.id, image.annotations]) of the render that follows a
\* handler: h is the history state the handler left, (oldId, oldAnns) the
\* image of the previous render, (id, anns) the image of this render.
HistoryEffect(h, oldId, oldAnns, id, anns, deferred) ==
  IF id = oldId /\ anns.ref = oldAnns.ref THEN h
  ELSE IF id # h.prevImg
  THEN OnImageSwitch(h, id, anns)
  ELSE IF anns.ref # h.prevAnns.ref
  THEN IF Suppressed(h) THEN h
       ELSE IF ~Replayed(h)
            THEN [h EXCEPT !.undo = Append(@, UpdaterArg(deferred, h.prevAnns, anns)),
                           !.redo = << >>,
                           !.prevAnns = anns, !.isUR = FALSE, !.pushed = TRUE]
            ELSE [h EXCEPT !.prevAnns = anns, !.isUR = FALSE]
  ELSE h

\* writes the history state h back
SetHistory(h) ==
  /\ undoStack' = h.undo
  /\ redoStack' = h.redo
  /\ prevAnnotationsRef' = h.prevAnns
  /\ prevImageIdRef' = h.prevImg
  /\ isHistoryAction' = h.isHist
  /\ dragStartAnnotationsRef' = h.dragStartAnns
  /\ isUndoRedo' = h.isUR
  /\ recorded' = h.pushed

\* the host's updateAnnotations: replaces the list of the selected image
UpdateAnnotations(newList) == [images EXCEPT ![imageId] = newList]

\* ---------------------------------------------------------- observation
\* a pointer-down starts a gesture
GestStart(kind, target, creation) ==
  [kind |-> kind, active |-> TRUE, pure |-> TRUE, mode |-> toolMode,
   ended |-> FALSE, target |-> target, list0 |-> Annotations,
   undo0 |-> undoStack, redo0 |-> redoStack, moves |-> 0, updates |-> 0,
   rect |-> creation,
   \* of a pan gesture: selection and pan at pointer-down, first and last
   \* pointer position
   sel0 |-> IF kind = "pan" THEN selectedAnnId ELSE NoId,
   pan0 |-> IF kind = "pan" THEN pan ELSE [x |-> 0, y |-> 0],
   \* (of a draw gesture too: the anchor, in image space)
   down |-> IF kind \in {"pan", "draw"} THEN dragStart' ELSE NullPoint,
   at |-> IF kind = "pan" THEN dragStart' ELSE NullPoint]

\* a pointer-move of the gesture; updated: it called onUpdateAnnotations
GestMove(updated, creation) ==
  IF gest.active /\ ~gest.pure THEN gest
  ELSE IF gest.active
  THEN [gest EXCEPT !.moves = Min(@ + 1, 2),
                    !.updates = IF updated THEN Min(@ + 1, 2) ELSE @,
                    !.rect = creation,
                    !.at = IF gest.kind = "pan" THEN dragStart' ELSE @]
  ELSE NoGesture

\* pointer-up or pointer-leave ends it
GestEnd ==
  IF gest.active /\ gest.pure THEN [gest EXCEPT !.active = FALSE, !.ended = TRUE]
  ELSE NoGesture

\* any other event in between
GestOther ==
  IF gest.active
  THEN [NoGesture EXCEPT !.active = TRUE, !.pure = FALSE, !.mode = gest.mode]
  ELSE NoGesture

ObserveEvent(label, didCall, g, r) ==
  /\ events < MaxEvents
  /\ events' = events + 1
  /\ last' = label
  /\ called' = didCall
  /\ gest' = g
  /\ replay' = r
  \* the Canvas has no handler to hand a rectangle to
  /\ magicBoxRect' = NullRect
  /\ pair' =
       LET now == [list |-> Annotations, undo |-> undoStack, redo |-> redoStack]
       IN IF label = "undo" /\ undoStack # << >>
          THEN IF pair.op = "redo" THEN [pair EXCEPT !.op = "redoUndo"]
               ELSE [op |-> "undo"] @@ now
          ELSE IF label = "redo" /\ redoStack # << >>
          THEN IF pair.op = "undo" THEN [pair EXCEPT !.op = "undoRedo"]
               ELSE [op |-> "redo"] @@ now
          ELSE NoPair
  /\ UNCHANGED << snapVars, tripVars, axisVars, appVars >>

\* an event other than a pointer-move
Observe(label, didCall, g, r) ==
  /\ ObserveEvent(label, didCall, g, r)
  /\ moveSnap' = NoMoveSnap

\* a pointer-move: sx, sy tell whether it snapped on the x and on the y axis
ObserveMove(didCall, g, sx, sy) ==
  /\ ObserveEvent("other", didCall, g, NoReplay)
  /\ moveSnap' = [move |-> TRUE, x |-> sx, y |-> sy]

\* ------------------------------------------------------------ hit test
\* getMousePos: viewport to image space (the container's left/top is 0)
MouseX(p) == (p[1] - pan.x) \div Zoom
MouseY(p) == (p[2] - pan.y) \div Zoom

OverRect(rect, x, y) ==
  /\ rect.x <= x /\ x <= rect.x + rect.w
  /\ rect.y <= y /\ y <= rect.y + rect.h

\* the annotation whose <g> receives a pointer-down at (x, y): the one drawn
\* last among those under the pointer, or NoId
RECURSIVE TopAt(_, _, _)
TopAt(boxes, x, y) ==
  IF boxes = << >> THEN NoId
  ELSE LET b == boxes[Len(boxes)]
       IN IF OverRect(yoloToSvg(b, FrameW, FrameH), x, y) THEN b.id
          ELSE TopAt(SubSeq(boxes, 1, Len(boxes) - 1), x, y)

\* (x, y) lies on a corner handle of the selected annotation (circle r = 4/zoom)
OnHandle(x, y) ==
  /\ toolMode = "SELECT"
  /\ Has(Annotations.boxes, selectedAnnId)
  /\ LET rect == yoloToSvg(Find(Annotations.boxes, selectedAnnId), FrameW, FrameH)
     IN \E cx \in {rect.x, rect.x + rect.w}, cy \in {rect.y, rect.y + rect.h} :
          (x - cx) * (x - cx) + (y - cy) * (y - cy)
            <= (HandleRadius \div Zoom) * (HandleRadius \div Zoom)

\* ------------------------------------------------------------- handlers
\* handleMouseDown: pointer-down that reaches the container
MouseDown(p) ==
  LET x == MouseX(p)
      y == MouseY(p)
      snap == toolMode \in {"DRAW", "SELECT"}
      h == [History EXCEPT !.dragStartAnns = IF snap THEN Annotations ELSE @,
                           !.isHist = IF snap THEN TRUE ELSE @]
  IN /\ toolMode = "SELECT" => (TopAt(Annotations.boxes, x, y) = NoId /\ ~OnHandle(x, y))
     /\ IF toolMode = "PAN"
        THEN /\ isDragging' = TRUE
             /\ dragStart' = Pt(p[1], p[2])
             /\ UNCHANGED << activeCreation, selectedAnnId >>
        ELSE IF toolMode \in {"DRAW", "MAGIC_BOX"}
        THEN /\ isDragging' = TRUE
             /\ activeCreation' = Rect(x, y, 0, 0)
             /\ dragStart' = Pt(x, y)
             /\ selectedAnnId' = NoId
        ELSE /\ selectedAnnId' = NoId
             /\ UNCHANGED << isDragging, dragStart, activeCreation >>
     /\ SetHistory(h)
     /\ UNCHANGED << images, imageId, toolMode, currentLabelId, pan, snapPixelDistance,
                     draggingAnnotationId, resizeHandle, activeSnapLines,
                     initialMoveRect, nextRef >>
     /\ Observe("other", FALSE,
                GestStart(IF toolMode = "PAN" THEN "pan"
                          ELSE IF toolMode \in {"DRAW", "MAGIC_BOX"} THEN "draw"
                          ELSE "click", NoId,
                          activeCreation'),
                NoReplay)

\* a pointer-down on a body that bubbles to the container, whose handler
\* clears the selection
BodySelectionBubbled(id) == NoId

\* lines 326-327: the event stops at the annotation, which is selected
BodySelection(id) == id

\* handleAnnotationMouseDown: pointer-down on the body of annotation id
AnnotationMouseDown(id, p) ==
  LET x == MouseX(p)
      y == MouseY(p)
      h == [History EXCEPT !.dragStartAnns = Annotations, !.isHist = TRUE]
  IN /\ toolMode = "SELECT"
     /\ id # NoId
     /\ TopAt(Annotations.boxes, x, y) = id
     /\ ~OnHandle(x, y)
     /\ selectedAnnId' = BodySelection(id)
     /\ draggingAnnotationId' = id
     /\ initialMoveRect' = yoloToSvg(Find(Annotations.boxes, id), FrameW, FrameH)
     /\ dragStart' = Pt(x, y)
     /\ SetHistory(h)
     /\ UNCHANGED << images, imageId, toolMode, currentLabelId, pan, snapPixelDistance,
                     isDragging, activeCreation, resizeHandle, activeSnapLines, nextRef >>
     /\ Observe("other", FALSE, GestStart("move", id, activeCreation), NoReplay)

\* handleResizeMouseDown: pointer-down on a corner handle of annotation id
ResizeMouseDown(handle, id) ==
  LET h == [History EXCEPT !.dragStartAnns = Annotations, !.isHist = TRUE]
  IN /\ toolMode = "SELECT"
     /\ id # NoId
     /\ id = selectedAnnId
     /\ Has(Annotations.boxes, id)
     /\ resizeHandle' = handle
     /\ draggingAnnotationId' = NoId
     /\ SetHistory(h)
     /\ UNCHANGED << hostVars, isDragging, dragStart, activeCreation, activeSnapLines,
                     initialMoveRect, nextRef >>
     /\ Observe("other", FALSE, GestStart("resize", id, activeCreation), NoReplay)

\* a resize whose top-left handle moves the box without recomputing its size
ResizeRectKeepSize(handle, rect, mx, my) ==
  IF handle = "tl" THEN Rect(mx, my, rect.w, rect.h)
  ELSE IF handle = "tr" THEN Rect(rect.x, my, mx - rect.x, (rect.y + rect.h) - my)
  ELSE IF handle = "bl" THEN Rect(mx, rect.y, (rect.x + rect.w) - mx, my - rect.y)
  ELSE IF handle = "br" THEN Rect(rect.x, rect.y, mx - rect.x, my - rect.y)
  ELSE rect

\* the rectangle a resize move proposes for rect, by handle (lines 248-251)
ResizeRect(handle, rect, mx, my) ==
  IF handle = "tl" THEN Rect(mx, my, (rect.x + rect.w) - mx, (rect.y + rect.h) - my)
  ELSE IF handle = "tr" THEN Rect(rect.x, my, mx - rect.x, (rect.y + rect.h) - my)
  ELSE IF handle = "bl" THEN Rect(mx, rect.y, (rect.x + rect.w) - mx, my - rect.y)
  ELSE IF handle = "br" THEN Rect(rect.x, rect.y, mx - rect.x, my - rect.y)
  ELSE rect

\* a placement that tries the trailing edge first
MoveAxisTrailingFirst(raw, size, lead, trail) ==
  IF trail.snapped THEN [pos |-> trail.val - size, line |-> << trail.val >>]
  ELSE IF lead.snapped THEN [pos |-> lead.val, line |-> << lead.val >>]
  ELSE [pos |-> raw, line |-> << >>]

\* position of a moved box on one axis (lines 269-276): lead/trail are the
\* snaps of its leading and trailing edge
MoveAxis(raw, size, lead, trail) ==
  IF lead.snapped THEN [pos |-> lead.val, line |-> << lead.val >>]
  ELSE IF trail.snapped THEN [pos |-> trail.val - size, line |-> << trail.val >>]
  ELSE [pos |-> raw, line |-> << >>]

\* pan branch of handleMouseMove (lines 205-211)
MouseMovePan(p) ==
  LET nx == pan.x + (p[1] - dragStart.x)
      ny == pan.y + (p[2] - dragStart.y)
  IN /\ toolMode = "PAN" /\ isDragging /\ dragStart.set
     /\ Abs(nx) <= MaxPan /\ Abs(ny) <= MaxPan
     /\ pan' = [x |-> nx, y |-> ny]
     /\ dragStart' = Pt(p[1], p[2])
     /\ SetHistory(History)
     /\ UNCHANGED << images, imageId, toolMode, selectedAnnId, currentLabelId,
                     snapPixelDistance, isDragging, activeCreation,
                     draggingAnnotationId, resizeHandle, activeSnapLines,
                     initialMoveRect, nextRef >>
     /\ ObserveMove(FALSE, GestMove(FALSE, activeCreation), FALSE, FALSE)

\* a preview spanned from the anchor without normalising the direction
CreationSigned(anchor, cx, cy) ==
  Rect(anchor.x, anchor.y, cx - anchor.x, cy - anchor.y)

\* lines 227-231: the preview rectangle between the anchor and (cx, cy)
Creation(anchor, cx, cy) ==
  Rect(Min(anchor.x, cx), Min(anchor.y, cy), Abs(cx - anchor.x), Abs(cy - anchor.y))

\* draw branch (lines 219-234)
MouseMoveDraw(p) ==
  LET x == MouseX(p)
      y == MouseY(p)
      threshold == snapPixelDistance \div Zoom
      lines == getSnapLines(Annotations.boxes, NoId)
      sx == getClosestSnap(x, lines.xLines, threshold, snapPixelDistance)
      sy == getClosestSnap(y, lines.yLines, threshold, snapPixelDistance)
      creation == Creation(dragStart, sx.val, sy.val)
  IN /\ ~(toolMode = "PAN" /\ isDragging /\ dragStart.set)
     /\ toolMode = "DRAW" /\ isDragging /\ dragStart.set
     /\ activeCreation' = creation
     /\ activeSnapLines' = [x |-> SnapVisual(sx), y |-> SnapVisual(sy)]
     /\ SetHistory(History)
     /\ UNCHANGED << hostVars, isDragging, dragStart, draggingAnnotationId,
                     resizeHandle, initialMoveRect, nextRef >>
     /\ ObserveMove(FALSE,
                    LET g == GestMove(FALSE, creation)
                    IN \* of a draw gesture: the pointer of the last move
                       IF g.active /\ g.pure /\ g.kind = "draw"
                       THEN [g EXCEPT !.at = Pt(p[1], p[2])] ELSE g,
                    sx.snapped, sy.snapped)

\* a resize that applies every computed rectangle
AcceptsAny(r) == TRUE

\* line 253: the computed rectangle is applied only with positive extent
Accepts(r) == r.w > 0 /\ r.h > 0

\* resize branch (lines 236-261)
MouseMoveResize(p) ==
  LET x == MouseX(p)
      y == MouseY(p)
      threshold == snapPixelDistance \div Zoom
      found == Has(Annotations.boxes, selectedAnnId)
      rect == yoloToSvg(Find(Annotations.boxes, selectedAnnId), FrameW, FrameH)
      lines == getSnapLines(Annotations.boxes, selectedAnnId)
      sx == getClosestSnap(x, lines.xLines, threshold, snapPixelDistance)
      sy == getClosestSnap(y, lines.yLines, threshold, snapPixelDistance)
      r == ResizeRect(resizeHandle, rect, sx.val, sy.val)
      accept == found /\ Accepts(r)
      newYolo == svgToYolo(r.x, r.y, r.w, r.h, FrameW, FrameH)
      updated == List(nextRef, imageId, MapGeometry(Annotations.boxes, selectedAnnId, newYolo))
      anns == IF accept THEN updated ELSE Annotations
  IN /\ ~(toolMode = "PAN" /\ isDragging /\ dragStart.set)
     /\ ~(toolMode = "DRAW" /\ isDragging /\ dragStart.set)
     /\ toolMode = "SELECT" /\ resizeHandle # "none" /\ selectedAnnId # NoId
     /\ images' = UpdateAnnotations(anns)
     /\ nextRef' = IF accept THEN nextRef + 1 ELSE nextRef
     /\ activeSnapLines' = IF found THEN [x |-> SnapVisual(sx), y |-> SnapVisual(sy)]
                           ELSE activeSnapLines
     /\ SetHistory(HistoryEffect(History, imageId, Annotations, imageId, anns, TRUE))
     /\ UNCHANGED << imageId, toolMode, selectedAnnId, currentLabelId, pan,
                     snapPixelDistance, isDragging, dragStart, activeCreation,
                     draggingAnnotationId, resizeHandle, initialMoveRect >>
     /\ ObserveMove(accept,
                    LET g == GestMove(accept, activeCreation)
                    IN \* of a resize gesture: the pointer of the last accepted move
                       IF accept /\ g.active /\ g.pure /\ g.kind = "resize"
                       THEN [g EXCEPT !.at = Pt(p[1], p[2])] ELSE g,
                    found /\ sx.snapped, found /\ sy.snapped)

\* a move branch taken whenever an annotation is selected
MoveBranchSelected == toolMode = "SELECT" /\ selectedAnnId # NoId

\* line 263: the condition of the move branch
MoveBranch ==
  /\ toolMode = "SELECT" /\ draggingAnnotationId # NoId /\ initialMoveRect.set
  /\ dragStart.set

\* move branch (lines 263-282), followed by the test of lines 284-286, which
\* fails here because draggingAnnotationId is set
MouseMoveDrag(p) ==
  LET x == MouseX(p)
      y == MouseY(p)
      threshold == snapPixelDistance \div Zoom
      rawX == initialMoveRect.x + (x - dragStart.x)
      rawY == initialMoveRect.y + (y - dragStart.y)
      lines == getSnapLines(Annotations.boxes, draggingAnnotationId)
      snapL == getClosestSnap(rawX, lines.xLines, threshold, snapPixelDistance)
      snapR == getClosestSnap(rawX + initialMoveRect.w, lines.xLines, threshold, snapPixelDistance)
      snapT == getClosestSnap(rawY, lines.yLines, threshold, snapPixelDistance)
      snapB == getClosestSnap(rawY + initialMoveRect.h, lines.yLines, threshold, snapPixelDistance)
      ax == MoveAxis(rawX, initialMoveRect.w, snapL, snapR)
      ay == MoveAxis(rawY, initialMoveRect.h, snapT, snapB)
      newYolo == svgToYolo(ax.pos, ay.pos, initialMoveRect.w, initialMoveRect.h, FrameW, FrameH)
      updated == List(nextRef, imageId, MapGeometry(Annotations.boxes, draggingAnnotationId, newYolo))
  IN /\ ~(toolMode = "PAN" /\ isDragging /\ dragStart.set)
     /\ ~(toolMode = "DRAW" /\ isDragging /\ dragStart.set)
     /\ ~(toolMode = "SELECT" /\ resizeHandle # "none" /\ selectedAnnId # NoId)
     /\ MoveBranch
     /\ images' = UpdateAnnotations(updated)
     /\ nextRef' = nextRef + 1
     /\ activeSnapLines' = [x |-> ax.line, y |-> ay.line]
     /\ SetHistory(HistoryEffect(History, imageId, Annotations, imageId, updated, TRUE))
     /\ UNCHANGED << imageId, toolMode, selectedAnnId, currentLabelId, pan,
                     snapPixelDistance, isDragging, dragStart, activeCreation,
                     draggingAnnotationId, resizeHandle, initialMoveRect >>
     /\ ObserveMove(TRUE, GestMove(TRUE, activeCreation),
                    ax.line # << >>, ay.line # << >>)

\* no branch applies: only the guide lines may be cleared (lines 284-286)
MouseMoveIdle(p) ==
  /\ ~(toolMode = "PAN" /\ isDragging /\ dragStart.set)
  /\ ~(toolMode = "DRAW" /\ isDragging /\ dragStart.set)
  /\ ~(toolMode = "SELECT" /\ resizeHandle # "none" /\ selectedAnnId # NoId)
  /\ ~MoveBranch
  /\ activeSnapLines' =
       IF ~isDragging /\ resizeHandle = "none" /\ draggingAnnotationId = NoId
       THEN NoLines ELSE activeSnapLines
  /\ SetHistory(History)
  /\ UNCHANGED << hostVars, isDragging, dragStart, activeCreation,
                  draggingAnnotationId, resizeHandle, initialMoveRect, nextRef >>
  /\ ObserveMove(FALSE, GestMove(FALSE, activeCreation), FALSE, FALSE)

\* handleMouseMove
MouseMove(p) ==
  \/ MouseMovePan(p)
  \/ MouseMoveDraw(p)
  \/ MouseMoveResize(p)
  \/ MouseMoveDrag(p)
  \/ MouseMoveIdle(p)

\* a commit that leaves the suppression flag set
CommitGestureKeepFlag(h, anns) ==
  LET changed == h.isHist /\ anns.ref # h.dragStartAnns.ref
  IN [h EXCEPT !.undo = IF changed THEN Append(@, h.dragStartAnns) ELSE @,
               !.redo = IF changed THEN << >> ELSE @,
               !.prevAnns = IF changed THEN anns ELSE @]

\* a commit that pushes the snapshot and leaves the redo stack alone
CommitGestureKeepRedo(h, anns) ==
  LET changed == h.isHist /\ anns.ref # h.dragStartAnns.ref
  IN [h EXCEPT !.undo = IF changed THEN Append(@, h.dragStartAnns) ELSE @,
               !.prevAnns = IF changed THEN anns ELSE @,
               !.isHist = FALSE]

\* lines 291-300: the gesture's single history entry
CommitGesture(h, anns) ==
  LET changed == h.isHist /\ anns.ref # h.dragStartAnns.ref
  IN [h EXCEPT !.undo = IF changed THEN Append(@, h.dragStartAnns) ELSE @,
               !.redo = IF changed THEN << >> ELSE @,
               !.prevAnns = IF changed THEN anns ELSE @,
               !.isHist = FALSE]

\* a size test that accepts every non-empty rectangle
FinalizesAny(rect) == rect.w > 0 /\ rect.h > 0

\* line 303: the drawn rectangle is large enough to become an annotation
Finalizes(rect) == rect.w > MinDrawSize /\ rect.h > MinDrawSize

\* handleMouseUp: pointer-up, and pointer-leave (onMouseLeave={handleMouseUp})
MouseUp ==
  LET h == CommitGesture(History, Annotations)
      \* lines 302-313
      finalize == toolMode = "DRAW" /\ activeCreation.set /\ Finalizes(activeCreation)
      newAnn == Box(nextRef, currentLabelId, activeCreation.x, activeCreation.y,
                    activeCreation.w, activeCreation.h)
      anns == IF finalize THEN List(nextRef, imageId, Append(Annotations.boxes, newAnn))
              ELSE Annotations
  IN /\ images' = UpdateAnnotations(anns)
     /\ nextRef' = IF finalize THEN nextRef + 1 ELSE nextRef
     /\ selectedAnnId' = IF finalize THEN newAnn.id ELSE selectedAnnId
     /\ isDragging' = FALSE
     /\ dragStart' = NullPoint
     /\ activeCreation' = NullRect
     /\ draggingAnnotationId' = NoId
     /\ resizeHandle' = "none"
     /\ initialMoveRect' = NullRect
     /\ activeSnapLines' = NoLines
     /\ SetHistory(HistoryEffect(h, imageId, Annotations, imageId, anns, TRUE))
     /\ UNCHANGED << imageId, toolMode, currentLabelId, pan, snapPixelDistance >>
     /\ Observe("mouseUp", finalize, GestEnd,
                IF gest.active /\ gest.pure /\ anns.ref # gest.list0.ref
                THEN [step |-> 1, before |-> gest.list0.boxes, after |-> anns.boxes]
                ELSE NoReplay)

\* the flag raised before the emptiness test
EmptyStackReturnFlagged(h) == [h EXCEPT !.isUR = TRUE]

\* lines 96 and 106: the early return on an empty stack
EmptyStackReturn(h) == h

\* an undo that pushes the restored entry, not the current list, on redo
UndoStacksPushTop(h, anns) ==
  [h EXCEPT !.isUR = TRUE,
            !.redo = Append(@, h.undo[Len(h.undo)]),
            !.undo = SubSeq(@, 1, Len(@) - 1)]

\* lines 99-101: the flag, the push on redo, the pop of undo
UndoStacks(h, anns) ==
  [h EXCEPT !.isUR = TRUE,
            !.redo = Append(@, anns),
            !.undo = SubSeq(@, 1, Len(@) - 1)]

\* a redo that does not put the current list on the undo stack
RedoStacksNoPush(h, anns) ==
  [h EXCEPT !.isUR = TRUE,
            !.redo = SubSeq(@, 1, Len(@) - 1)]

\* lines 109-111: the flag, the push on undo, the pop of redo
RedoStacks(h, anns) ==
  [h EXCEPT !.isUR = TRUE,
            !.undo = Append(@, anns),
            !.redo = SubSeq(@, 1, Len(@) - 1)]

\* performUndo (Ctrl+Z or the Undo button)
Undo ==
  IF undoStack = << >>
  THEN /\ SetHistory(EmptyStackReturn(History))
       /\ UNCHANGED << hostVars, gestureVars, nextRef >>
       /\ Observe("undo", FALSE, GestOther, NoReplay)
  ELSE LET prevState == undoStack[Len(undoStack)]
           h == UndoStacks(History, Annotations)
       IN /\ images' = UpdateAnnotations(prevState)
          /\ SetHistory(HistoryEffect(h, imageId, Annotations, imageId, prevState, TRUE))
          /\ UNCHANGED << imageId, toolMode, selectedAnnId, currentLabelId, pan,
                          snapPixelDistance, gestureVars, nextRef >>
          /\ Observe("undo", TRUE, GestOther,
                     IF replay.step = 1 THEN [replay EXCEPT !.step = 2] ELSE NoReplay)

\* performRedo (Ctrl+Shift+Z, Ctrl+Y or the Redo button)
Redo ==
  IF redoStack = << >>
  THEN /\ SetHistory(EmptyStackReturn(History))
       /\ UNCHANGED << hostVars, gestureVars, nextRef >>
       /\ Observe("redo", FALSE, GestOther, NoReplay)
  ELSE LET nextState == redoStack[Len(redoStack)]
           h == RedoStacks(History, Annotations)
       IN /\ images' = UpdateAnnotations(nextState)
          /\ SetHistory(HistoryEffect(h, imageId, Annotations, imageId, nextState, TRUE))
          /\ UNCHANGED << imageId, toolMode, selectedAnnId, currentLabelId, pan,
                          snapPixelDistance, gestureVars, nextRef >>
          /\ Observe("redo", TRUE, GestOther,
                     IF replay.step = 2 THEN [replay EXCEPT !.step = 3] ELSE NoReplay)

\* host: handleDeleteAnnotation (Delete/Backspace key or the Delete button)
DeleteAnnotation ==
  LET newAnns == List(nextRef, imageId, Without(Annotations.boxes, selectedAnnId))
  IN /\ selectedAnnId # NoId
     /\ images' = UpdateAnnotations(newAnns)
     /\ nextRef' = nextRef + 1
     /\ selectedAnnId' = NoId
     /\ SetHistory(HistoryEffect(History, imageId, Annotations, imageId, newAnns, FALSE))
     /\ UNCHANGED << imageId, toolMode, currentLabelId, pan, snapPixelDistance,
                     gestureVars >>
     /\ Observe("delete", TRUE, GestOther, NoReplay)

\* host: runBatchAI on the edited image appends the boxes the model returned
AutoLabel(n) ==
  LET newAnns == IF n = 0 THEN << >>
                 ELSE << Box(nextRef, currentLabelId, 0, 0, 4, 4) >>
      mergedAnns == List(nextRef, imageId, Annotations.boxes \o newAnns)
  IN /\ images' = UpdateAnnotations(mergedAnns)
     /\ nextRef' = nextRef + 1
     /\ SetHistory(HistoryEffect(History, imageId, Annotations, imageId, mergedAnns, FALSE))
     /\ UNCHANGED << imageId, toolMode, selectedAnnId, currentLabelId, pan,
                     snapPixelDistance, gestureVars >>
     /\ Observe("autoLabel", FALSE, GestOther, NoReplay)

\* host: setToolMode (keys v, r, h or the tool buttons)
SetToolMode(m) ==
  /\ m # toolMode
  /\ toolMode' = m
  /\ SetHistory(History)
  /\ UNCHANGED << images, imageId, selectedAnnId, currentLabelId, pan,
                  snapPixelDistance, gestureVars, nextRef >>
  /\ Observe("other", FALSE, GestOther, NoReplay)

\* host: the image prop changes while the Canvas stays mounted
SwitchImage(id) ==
  /\ id # imageId
  /\ imageId' = id
  /\ pan' = [x |-> 0, y |-> 0]
  /\ SetHistory(HistoryEffect(History, imageId, Annotations, id, images[id], FALSE))
  /\ UNCHANGED << images, toolMode, selectedAnnId, currentLabelId, snapPixelDistance,
                  gestureVars, nextRef >>
  /\ Observe("switchImage", FALSE, GestOther, NoReplay)

\* host: the image is loaded behind the loading indicator, which unmounts the
\* Canvas; it is mounted again with the loaded image (state as constructed)
LoadImage(id) ==
  /\ id # imageId
  /\ imageId' = id
  /\ pan' = [x |-> 0, y |-> 0]
  /\ isDragging' = FALSE
  /\ dragStart' = NullPoint
  /\ activeCreation' = NullRect
  /\ draggingAnnotationId' = NoId
  /\ resizeHandle' = "none"
  /\ activeSnapLines' = NoLines
  /\ initialMoveRect' = NullRect
  /\ undoStack' = << >>
  /\ redoStack' = << >>
  /\ prevAnnotationsRef' = images[id]
  /\ prevImageIdRef' = id
  /\ isHistoryAction' = FALSE
  /\ dragStartAnnotationsRef' = images[id]
  /\ isUndoRedo' = FALSE
  /\ recorded' = FALSE
  /\ UNCHANGED << images, toolMode, selectedAnnId, currentLabelId, snapPixelDistance,
                  nextRef >>
  /\ Observe("loadImage", FALSE, NoGesture, NoReplay)

Next ==
  \/ \E p \in Points : MouseDown(p)
  \/ \E p \in Points : \E id \in Ids(Annotations.boxes) : AnnotationMouseDown(id, p)
  \/ \E handle \in Handles : \E id \in Ids(Annotations.boxes) : ResizeMouseDown(handle, id)
  \/ \E p \in Points : MouseMove(p)
  \/ MouseUp
  \/ Undo
  \/ Redo
  \/ DeleteAnnotation
  \/ \E n \in AutoLabelCounts : AutoLabel(n)
  \/ \E m \in Modes : SetToolMode(m)
  \/ \E id \in ImageIds : SwitchImage(id)
  \/ \E id \in ImageIds : LoadImage(id)

Spec == Init /\ [][Next]_vars

\* ------------------------------------------------- getClosestSnap alone
\* values, candidate lines and configured distances the function is applied to
SnapVals == {5, 10, 12}
SnapLineVals == {0, 10, 20}
SnapDistances == {-2, 0, 5, 6}
SnapLists == UNION { [1..n -> SnapLineVals] : n \in 0..MaxLines }

SnapInit ==
  /\ CanvasInit
  /\ snapIn \in [val : SnapVals, lines : SnapLists, dist : SnapDistances]
  /\ snapOut = NoSnapOut
  /\ tripIn = NoTripIn
  /\ tripOut = NoTripOut
  /\ axisIn = NoAxisIn
  /\ axisOut = NoAxisOut

\* the call of lines 221-222: threshold = SNAP_DIST_PX / zoom (line 214)
SnapApply ==
  LET r == getClosestSnap(snapIn.val, snapIn.lines, snapIn.dist \div Zoom, snapIn.dist)
  IN /\ ~snapOut.done
     /\ snapOut' = [val |-> r.val, snapped |-> r.snapped, done |-> TRUE]
     /\ UNCHANGED << hostVars, gestureVars, historyVars, nextRef, obsVars, snapIn,
                     tripVars, axisVars, appVars >>

SnapNext == SnapApply

SnapSpec == SnapInit /\ [][SnapNext]_vars

\* ------------------------------------------- coordinate transform alone
\* frames, and the whole-pixel rectangles whose normalised boxes are converted
TripFrames == {FrameW, 2 * FrameW} \X {FrameH, 2 * FrameH}
TripRects == [x : {0, 3}, y : {0, 2}, w : {1, 4, 7}, h : {2, 5}]

\* the box with centre (cx2 / 2, cy2 / 2) and size (w, h), in pixels of frame
TripBox(frame, r) ==
  [x |-> (2 * r.x + r.w) * (Den \div (2 * frame[1])),
   y |-> (2 * r.y + r.h) * (Den \div (2 * frame[2])),
   w |-> r.w * (Den \div frame[1]),
   h |-> r.h * (Den \div frame[2])]

TripInit ==
  /\ CanvasInit
  /\ snapIn = NoSnapIn
  /\ snapOut = NoSnapOut
  /\ \E frame \in TripFrames, r \in TripRects :
       tripIn = [frame |-> frame, box |-> TripBox(frame, r)]
  /\ tripOut = NoTripOut
  /\ axisIn = NoAxisIn
  /\ axisOut = NoAxisOut

\* yoloToSvg, then svgToYolo of its result, as the Canvas uses them on the
\* annotation it edits (lines 239 and 254)
TripApply ==
  LET rect == yoloToSvg(tripIn.box, tripIn.frame[1], tripIn.frame[2])
      back == svgToYolo(rect.x, rect.y, rect.w, rect.h, tripIn.frame[1], tripIn.frame[2])
  IN /\ ~tripOut.done
     /\ tripOut' = [rect |-> rect, box |-> back, done |-> TRUE]
     /\ UNCHANGED << hostVars, gestureVars, historyVars, nextRef, obsVars, snapVars,
                     tripIn, axisVars, appVars >>

TripNext == TripApply

TripSpec == TripInit /\ [][TripNext]_vars

\* ------------------------------------------- placement of a moved box alone
\* raw positions of the leading edge, box sizes, candidate lines and
\* configured distances the move branch is applied to, on one axis
AxisRaws == {4, 6, 10}
AxisSizes == {6, 8}
AxisLineVals == {0, 4, 16}
AxisDistances == {0, 3}
AxisLists == UNION { [1..n -> AxisLineVals] : n \in 0..MaxLines }

AxisInit ==
  /\ CanvasInit
  /\ snapIn = NoSnapIn
  /\ snapOut = NoSnapOut
  /\ tripIn = NoTripIn
  /\ tripOut = NoTripOut
  /\ axisIn \in [raw : AxisRaws, size : AxisSizes, lines : AxisLists,
                  dist : AxisDistances]
  /\ axisOut = NoAxisOut

\* lines 269-270 and 273-274 (x axis; 271-272 and 275-276 are the same on y)
AxisApply ==
  LET threshold == axisIn.dist \div Zoom
      lead == getClosestSnap(axisIn.raw, axisIn.lines, threshold, axisIn.dist)
      trail == getClosestSnap(axisIn.raw + axisIn.size, axisIn.lines, threshold,
                              axisIn.dist)
      m == MoveAxis(axisIn.raw, axisIn.size, lead, trail)
  IN /\ ~axisOut.done
     /\ axisOut' = [pos |-> m.pos, line |-> m.line, done |-> TRUE]
     /\ UNCHANGED << hostVars, gestureVars, historyVars, nextRef, obsVars, snapVars,
                     tripVars, axisIn, appVars >>

AxisNext == AxisApply

AxisSpec == AxisInit /\ [][AxisNext]_vars

\* ------------------------------------------ host: storage and asynchrony
\* App.tsx around the Canvas: the images store, the image load effect, the
\* annotation updates and the batch run. Reads and writes of the store take
\* effect in the order they are issued (transactions on one object store).
\* The state of the editor inside the Canvas is left alone here.
editorVars == << images, imageId, toolMode, currentLabelId, pan, snapPixelDistance,
                 gestureVars, historyVars, last, called, recorded, gest, replay,
                 magicBoxRect, moveSnap, pair, snapVars, tripVars, axisVars >>

\* one more event of the run
HostStep ==
  /\ events < MaxEvents
  /\ events' = events + 1
  /\ UNCHANGED editorVars

\* Array.from(selectedImageIds)
RECURSIVE TargetIds(_)
TargetIds(S) ==
  IF S = {} THEN << >>
  ELSE LET m == CHOOSE i \in S : \A j \in S : i <= j
       IN << m >> \o TargetIds(S \ {m})

\* the AI log modal covers the page: pointer input reaches nothing below it
PointerReaches == ~showLogModal
\* the Canvas is rendered (App.tsx 652, 663-665)
CanvasMounted == activeTab = "editor" /\ ~isLoadingImage

\* the change of the list of the image the batch holds, made by an update
\* that writes newAnns under id
EditOf(id, old, newAnns) ==
  IF isProcessingAI /\ batch.ids # << >> /\ Head(batch.ids) = id
  THEN IF \E b \in Ids(old) : ~Has(newAnns, b)
       THEN [kind |-> "delete",
             box |-> CHOOSE b \in Ids(old) : ~Has(newAnns, b), img |-> id]
       ELSE IF \E b \in Ids(newAnns) : ~Has(old, b)
       THEN [kind |-> "add",
             box |-> CHOOSE b \in Ids(newAnns) : ~Has(old, b), img |-> id]
       ELSE userEdit
  ELSE userEdit

\* updateAnnotations as the closure c holds it: the id is c's selectedImageId,
\* the functional setCurrentImage acts on the image shown now
updateAnnotations(c, newAnnotations) ==
  /\ currentImage' = [currentImage EXCEPT !.annotations = newAnnotations]
  /\ stored' = [stored EXCEPT ![c.selectedImageId] = newAnnotations]
  /\ userEdit' = EditOf(c.selectedImageId, c.currentImage.annotations.boxes,
                        newAnnotations.boxes)

\* handleDeleteAnnotation as the closure c holds it
handleDeleteAnnotation(c) ==
  /\ c.selectedAnnId # NoId
  /\ updateAnnotations(c, Anns(c.currentImage.annotations.img,
                               Without(c.currentImage.annotations.boxes,
                                       c.selectedAnnId)))
  /\ selectedAnnId' = NoId

\* a plain click on an image of the sidebar, and the start of the load effect
HandleImageClick(id) ==
  /\ PointerReaches
  /\ selectedImageIds' = {id}
  /\ IF id = selectedImageId
     THEN UNCHANGED << selectedImageId, isLoadingImage, loadImg >>
     ELSE /\ selectedImageId' = id
          /\ isLoadingImage' = TRUE
          /\ loadImg' = [pending |-> TRUE, id |-> id, stored |-> stored[id]]
  /\ HostStep
  /\ lastMerge' = NoMerge
  /\ UNCHANGED << stored, currentImage, activeTab, keyDown, isProcessingAI,
                  showLogModal, batch, userEdit, selectedAnnId, nextRef >>

\* getImage of the load effect resolves
LoadImgDone ==
  /\ loadImg.pending
  /\ currentImage' = [id |-> loadImg.id, annotations |-> loadImg.stored]
  /\ isLoadingImage' = FALSE
  /\ loadImg' = NoLoad
  /\ HostStep
  /\ lastMerge' = NoMerge
  /\ UNCHANGED << stored, selectedImageId, selectedImageIds, activeTab,
                  isProcessingAI, showLogModal, batch, userEdit, selectedAnnId,
                  nextRef >>
  /\ keyDown' = Closure'

\* the tab buttons of the header
SetActiveTab(t) ==
  /\ PointerReaches
  /\ t # activeTab
  /\ activeTab' = t
  /\ HostStep
  /\ lastMerge' = NoMerge
  /\ UNCHANGED << stored, selectedImageId, selectedImageIds, currentImage,
                  isLoadingImage, loadImg, isProcessingAI, showLogModal, batch,
                  userEdit, selectedAnnId, nextRef >>
  /\ keyDown' = Closure'

\* the Canvas reports a pointer-down on a box, or on the empty image
SelectAnnotation(id) ==
  /\ PointerReaches
  /\ CanvasMounted
  /\ id # selectedAnnId
  /\ selectedAnnId' = id
  /\ HostStep
  /\ lastMerge' = NoMerge
  /\ UNCHANGED << stored, selectedImageId, selectedImageIds, currentImage,
                  isLoadingImage, loadImg, activeTab, isProcessingAI, showLogModal,
                  batch, userEdit, nextRef >>
  /\ keyDown' = Closure'

\* the Canvas finalises a drawn box: onUpdateAnnotations, onSelectAnnotation
CanvasDraw ==
  LET box == Box(nextRef, 1, 0, 0, 6, 6)
      anns == currentImage.annotations
  IN /\ PointerReaches
     /\ CanvasMounted
     /\ updateAnnotations(Closure, Anns(anns.img, anns.boxes \o << box >>))
     /\ selectedAnnId' = nextRef
     /\ nextRef' = nextRef + 1
     /\ HostStep
     /\ lastMerge' = NoMerge
     /\ UNCHANGED << selectedImageId, selectedImageIds, isLoadingImage, loadImg,
                     activeTab, isProcessingAI, showLogModal, batch >>
     /\ keyDown' = Closure'

\* the Delete button of the tools sidebar
DeleteButton ==
  /\ PointerReaches
  /\ handleDeleteAnnotation(Closure)
  /\ HostStep
  /\ lastMerge' = NoMerge
  /\ UNCHANGED << selectedImageId, selectedImageIds, isLoadingImage, loadImg,
                  activeTab, isProcessingAI, showLogModal, batch, nextRef >>
  /\ keyDown' = Closure'

\* Delete or Backspace: the listener the keydown effect installed last
DeleteKey ==
  /\ keyDown.activeTab = "editor"
  /\ handleDeleteAnnotation(keyDown)
  /\ HostStep
  /\ lastMerge' = NoMerge
  /\ UNCHANGED << selectedImageId, selectedImageIds, isLoadingImage, loadImg,
                  activeTab, isProcessingAI, showLogModal, batch, nextRef >>
  /\ keyDown' = Closure'

\* Ctrl+A: every image of the sidebar is selected for the batch
SelectAll ==
  /\ selectedImageIds # ImageIds
  /\ selectedImageIds' = ImageIds
  /\ HostStep
  /\ lastMerge' = NoMerge
  /\ UNCHANGED << stored, selectedImageId, currentImage, isLoadingImage, loadImg,
                  activeTab, keyDown, isProcessingAI, showLogModal, batch, userEdit,
                  selectedAnnId, nextRef >>

\* the next image of the batch is read
BatchRead(ids, db, cur) ==
  IF ids = << >> THEN NoBatch
  ELSE [ids |-> ids, fullImage |-> db[Head(ids)], current |-> cur]

\* the auto-label buttons: runBatchAI up to its first getImage
RunBatchAI ==
  /\ PointerReaches
  /\ ~isProcessingAI
  /\ isProcessingAI' = TRUE
  /\ showLogModal' = TRUE
  /\ batch' = BatchRead(TargetIds(selectedImageIds), stored, currentImage.id)
  /\ userEdit' = NoEdit
  /\ HostStep
  /\ lastMerge' = NoMerge
  /\ UNCHANGED << stored, selectedImageId, selectedImageIds, currentImage,
                  isLoadingImage, loadImg, activeTab, keyDown, selectedAnnId,
                  nextRef >>

\* the model answers with n boxes: merge, write, show, go on with the next
BatchMerge(n) ==
  LET id == Head(batch.ids)
      newAnns == IF n = 0 THEN << >> ELSE << Box(nextRef, 1, 0, 0, 4, 4) >>
      \* [...fullImage.annotations, ...newAnns]: the record as it was read
      mergedAnns == Anns(batch.fullImage.img, batch.fullImage.boxes \o newAnns)
      db == [stored EXCEPT ![id] = mergedAnns]
      rest == Tail(batch.ids)
  IN /\ isProcessingAI
     /\ stored' = db
     /\ currentImage' = IF batch.current = id
                        THEN [currentImage EXCEPT !.annotations = mergedAnns]
                        ELSE currentImage
     /\ nextRef' = nextRef + n
     /\ batch' = BatchRead(rest, db, batch.current)
     /\ isProcessingAI' = (rest # << >>)
     /\ HostStep
     /\ lastMerge' = [img |-> id, edit |-> userEdit, added |-> Ids(newAnns)]
     /\ userEdit' = NoEdit
     /\ UNCHANGED << selectedImageId, selectedImageIds, isLoadingImage, loadImg,
                     activeTab, showLogModal, selectedAnnId >>
     /\ keyDown' = Closure'

\* the model call throws: the image is skipped, nothing is written
BatchFailed ==
  /\ isProcessingAI
  /\ batch' = BatchRead(Tail(batch.ids), stored, batch.current)
  /\ isProcessingAI' = (Tail(batch.ids) # << >>)
  /\ userEdit' = NoEdit
  /\ HostStep
  /\ lastMerge' = NoMerge
  /\ UNCHANGED << stored, selectedImageId, selectedImageIds, currentImage,
                  isLoadingImage, loadImg, activeTab, keyDown, showLogModal,
                  selectedAnnId, nextRef >>

\* the close button of the AI log modal, enabled once the batch is over
CloseLogModal ==
  /\ showLogModal
  /\ ~isProcessingAI
  /\ showLogModal' = FALSE
  /\ HostStep
  /\ lastMerge' = NoMerge
  /\ UNCHANGED << stored, selectedImageId, selectedImageIds, currentImage,
                  isLoadingImage, loadImg, activeTab, keyDown, isProcessingAI,
                  batch, userEdit, selectedAnnId, nextRef >>

AppNext ==
  \/ \E id \in ImageIds : HandleImageClick(id)
  \/ LoadImgDone
  \/ \E t \in {"editor", "train"} : SetActiveTab(t)
  \/ \E id \in Ids(currentImage.annotations.boxes) \cup {NoId} : SelectAnnotation(id)
  \/ CanvasDraw
  \/ DeleteButton
  \/ DeleteKey
  \/ SelectAll
  \/ RunBatchAI
  \/ \E n \in {0, 1} : BatchMerge(n)
  \/ BatchFailed
  \/ CloseLogModal

AppSpec == Init /\ [][AppNext]_vars

\* ================================================================ claims
Entries == { undoStack[i] : i \in 1..Len(undoStack) }
             \cup { redoStack[i] : i \in 1..Len(redoStack) }

\* a gesture that ran from pointer-down to pointer-up with nothing but its
\* own pointer-moves in between
Completed(kind) == gest.ended /\ gest.kind = kind

\* C1: a move gesture in Select mode (pointer-down on a body, one or more
\* pointer-moves that update the geometry, pointer-up) leaves the undo stack
\* one entry longer than at pointer-down, and that entry is the list as it
\* was at pointer-down.
C1_MoveGestureOneEntry ==
  (Completed("move") /\ gest.updates >= 1)
    => undoStack = Append(gest.undo0, gest.list0)

C1_Witness ==
  /\ Completed("move") /\ gest.updates = 2
  /\ Len(undoStack) = 1
  /\ Annotations.boxes # gest.list0.boxes

\* C2: after one committed gesture that took the list from L0 to L1, undo()
\* makes the current list equal to L0 by value, and redo() right after makes
\* it equal to L1.
C2_UndoRedoRestore ==
  /\ replay.step = 2 => Annotations.boxes = replay.before
  /\ replay.step = 3 => Annotations.boxes = replay.after

\* C3: undo() on a non-empty undo stack pops its top entry, pushes the list
\* that was current before the call on the redo stack and makes the popped
\* entry the current list; redo() does the same with the stacks exchanged.
C3_UndoRedoStep ==
  [][ /\ (last' = "undo" /\ events' # events /\ undoStack # << >>)
         => /\ undoStack' = SubSeq(undoStack, 1, Len(undoStack) - 1)
            /\ redoStack' = Append(redoStack, Annotations)
            /\ Annotations' = undoStack[Len(undoStack)]
      /\ (last' = "redo" /\ events' # events /\ redoStack # << >>)
         => /\ redoStack' = SubSeq(redoStack, 1, Len(redoStack) - 1)
            /\ undoStack' = Append(undoStack, Annotations)
            /\ Annotations' = redoStack[Len(redoStack)]
    ]_vars

C3_Witness ==
  /\ last = "redo" /\ called
  /\ undoStack # << >>
  /\ Annotations.boxes # undoStack[Len(undoStack)].boxes

\* C4: undo() on an empty undo stack and redo() on an empty redo stack change
\* nothing: the list, both stacks and the replay flag are as before and the
\* update callback is not called.
C4_EmptyStackNoOp ==
  [][ ( /\ events' # events
        /\ \/ last' = "undo" /\ undoStack = << >>
           \/ last' = "redo" /\ redoStack = << >> )
      => /\ UNCHANGED << hostVars, gestureVars, historyVars >>
         /\ ~called'
    ]_vars

C4_Witness ==
  /\ last = "undo" /\ ~called
  /\ undoStack = << >> /\ redoStack # << >>

\* C5: when the edited image changes, both stacks are emptied, the change is
\* not recorded as an edit, and the reference the change detection compares
\* with is the new image's list.
C5_SwitchClearsHistory ==
  last \in {"switchImage", "loadImage"}
    => /\ undoStack = << >> /\ redoStack = << >>
       /\ ~recorded
       /\ prevImageIdRef = imageId
       /\ prevAnnotationsRef = Annotations

C5_Witness ==
  /\ last = "switchImage"
  /\ imageId = 2
  /\ images[1].ref # 1

\* C6: every snapshot on the undo or the redo stack was a list of the image
\* that is edited now, whatever the interleaving of gestures and switches.
C6_HistoryPerImage ==
  \A e \in Entries : e.img = imageId

\* C7: outside of a gesture, a replacement of the list by the host that does
\* not come from undo/redo (delete, batch auto-label) pushes exactly one
\* entry on the undo stack: the list that was current just before.
C7_HostChangeRecorded ==
  [][ ( /\ events' # events
        /\ last' \in {"delete", "autoLabel"}
        /\ ~gest.active /\ ~isHistoryAction )
      => undoStack' = Append(undoStack, Annotations)
    ]_vars

\* C8: the replacement of the list that undo()/redo() makes is not recorded
\* by the change detection: it pushes nothing on the undo stack and does not
\* clear the stack the call has just pushed on.
C8_ReplayNotRecorded ==
  /\ (last = "undo" /\ called) => (~recorded /\ redoStack # << >>)
  /\ (last = "redo" /\ called) => (~recorded /\ undoStack # << >>)

C8_Witness ==
  /\ last = "undo" /\ called
  /\ ~isUndoRedo
  /\ prevAnnotationsRef = Annotations
  /\ Len(redoStack) = 1

\* C9: a move or resize gesture whose list at pointer-up equals the list at
\* pointer-down leaves both stacks as they were at pointer-down.
C9_NoNetChangeNoEntry ==
  ( /\ gest.ended /\ gest.kind \in {"move", "resize"}
    /\ Annotations.boxes = gest.list0.boxes )
    => (undoStack = gest.undo0 /\ redoStack = gest.redo0)

\* C10: a Draw gesture whose rectangle is not more than MinDrawSize in both
\* dimensions is discarded: the list, the selection and both stacks are as
\* at pointer-down.
C10_SmallDrawDiscarded ==
  ( /\ Completed("draw") /\ gest.mode = "DRAW"
    /\ ~(gest.rect.w > MinDrawSize /\ gest.rect.h > MinDrawSize) )
    => /\ Annotations = gest.list0
       /\ selectedAnnId = NoId
       /\ undoStack = gest.undo0 /\ redoStack = gest.redo0
       /\ ~called

C10_Witness ==
  /\ Completed("draw") /\ gest.mode = "DRAW"
  /\ gest.rect.set /\ gest.rect.w = 4 /\ gest.rect.h = 4
  /\ Len(Annotations.boxes) = 1

\* C11: a Draw gesture whose rectangle is more than MinDrawSize in both
\* dimensions appends exactly one annotation at the end of the list, with the
\* current label and the drawn geometry, selects it, leaves the others as
\* they were, and yields one undo entry holding the list before the draw.
C11_DrawAppendsOne ==
  ( /\ Completed("draw") /\ gest.mode = "DRAW"
    /\ gest.rect.set /\ gest.rect.w > MinDrawSize /\ gest.rect.h > MinDrawSize )
    => LET n == Len(gest.list0.boxes)
           g == svgToYolo(gest.rect.x, gest.rect.y, gest.rect.w, gest.rect.h,
                          FrameW, FrameH)
       IN /\ Len(Annotations.boxes) = n + 1
          /\ SubSeq(Annotations.boxes, 1, n) = gest.list0.boxes
          /\ Annotations.boxes[n + 1].labelId = currentLabelId
          /\ WithGeometry(Annotations.boxes[n + 1], g) = Annotations.boxes[n + 1]
          /\ Annotations.boxes[n + 1].id \notin Ids(gest.list0.boxes)
          /\ selectedAnnId = Annotations.boxes[n + 1].id
          /\ undoStack = Append(gest.undo0, gest.list0)

\* C12: after every pointer-move of a resize gesture that updates the box,
\* both dimensions of the resized box are at least 5 image pixels.
C12_ResizeClamped ==
  ( /\ gest.kind = "resize" /\ gest.active /\ gest.pure /\ gest.updates >= 1
    /\ Has(Annotations.boxes, gest.target) )
    => LET r == yoloToSvg(Find(Annotations.boxes, gest.target), FrameW, FrameH)
       IN r.w >= 5 /\ r.h >= 5

\* C13: a pointer-up or pointer-leave, in any tool mode and from any gesture
\* state, leaves the Canvas idle: dragging flag, anchor, creation rectangle,
\* dragged id, resize handle and initial move rectangle are cleared and the
\* history suppression is off.
C13_PointerUpIdle ==
  last = "mouseUp"
    => /\ ~isDragging
       /\ dragStart = NullPoint
       /\ activeCreation = NullRect
       /\ draggingAnnotationId = NoId
       /\ resizeHandle = "none"
       /\ initialMoveRect = NullRect
       /\ activeSnapLines = NoLines
       /\ ~isHistoryAction

C13_Witness ==
  /\ last = "mouseUp"
  /\ gest.ended /\ gest.kind = "pan" /\ gest.moves >= 1
  /\ toolMode = "PAN"

\* a pointer-down step: it starts the observation of a new gesture
PointerDownStep ==
  events' # events /\ gest'.active /\ gest'.pure /\ gest'.moves = 0

\* the state variables of a gesture are populated
Populated ==
  \/ isDragging \/ dragStart.set \/ activeCreation.set
  \/ draggingAnnotationId # NoId \/ resizeHandle # "none" \/ initialMoveRect.set

\* C14: a pointer-down that arrives while the state variables of a gesture
\* are still populated is not accepted: it changes neither the gesture
\* state, nor the anchor, nor the snapshot taken at the first pointer-down.
C14_NoConcurrentGesture ==
  [][ (PointerDownStep /\ Populated)
      => UNCHANGED << isDragging, dragStart, activeCreation, draggingAnnotationId,
                      resizeHandle, initialMoveRect, dragStartAnnotationsRef >>
    ]_vars

\* C15: a gesture keeps the kind of the tool mode of its pointer-down: while
\* it is in progress the pan changes only if it began in Pan mode, a creation
\* rectangle is tracked only if it began in Draw or MagicBox mode, and its
\* pointer-up creates an annotation only if it began in Draw mode.
C15_KindFixedByMode ==
  [][ (events' # events /\ gest.active /\ ~PointerDownStep)
      => /\ (last' = "mouseUp" /\ called') => gest.mode = "DRAW"
         /\ (last' = "other" /\ activeCreation'.set /\ activeCreation' # activeCreation)
              => gest.mode \in {"DRAW", "MAGIC_BOX"}
         /\ (last' = "other" /\ pan' # pan) => gest.mode = "PAN"
    ]_vars

\* C16: a pan gesture (pointer-down, moves, pointer-up in Pan mode) changes
\* neither the annotation list, nor the selection, nor the undo or the redo
\* stack, and the pan is the pan at pointer-down plus the displacement of the
\* pointer since pointer-down.
C16_PanFrame ==
  (gest.kind = "pan" /\ gest.pure /\ (gest.active \/ gest.ended))
    => /\ Annotations = gest.list0
       /\ selectedAnnId = gest.sel0
       /\ undoStack = gest.undo0
       /\ redoStack = gest.redo0
       /\ pan = [x |-> gest.pan0.x + (gest.at.x - gest.down.x),
                 y |-> gest.pan0.y + (gest.at.y - gest.down.y)]

\* C17: a completed draw gesture in MagicBox mode hands the drawn rectangle
\* to a handler outside the Canvas and creates no annotation and no history
\* entry.
C17_MagicBoxHandedOver ==
  (Completed("draw") /\ gest.mode = "MAGIC_BOX" /\ gest.moves >= 1)
    => /\ magicBoxRect.set
       /\ magicBoxRect = gest.rect
       /\ Annotations = gest.list0
       /\ undoStack = gest.undo0 /\ redoStack = gest.redo0

\* C18: each pointer-move of a move gesture replaces only the position of the
\* dragged annotation: its id, its label and its pixel width and height stay
\* those at pointer-down, the list keeps its length and order, and every
\* other annotation is unchanged.
C18_MoveFrame ==
  (gest.kind = "move" /\ gest.pure /\ (gest.active \/ gest.ended))
    => LET a == Annotations.boxes
           b == gest.list0.boxes
       IN /\ Len(a) = Len(b)
          /\ \A i \in 1..Len(b) :
               IF b[i].id = gest.target
               THEN /\ a[i].id = b[i].id
                    /\ a[i].labelId = b[i].labelId
                    /\ yoloToSvg(a[i], FrameW, FrameH).w = yoloToSvg(b[i], FrameW, FrameH).w
                    /\ yoloToSvg(a[i], FrameW, FrameH).h = yoloToSvg(b[i], FrameW, FrameH).h
               ELSE a[i] = b[i]

\* the threshold of an application of getClosestSnap (line 214)
SnapThreshold == snapIn.dist \div Zoom

\* distance of the value to the i-th candidate line
SnapDistance(i) == Abs(snapIn.val - snapIn.lines[i])

\* C19: with a threshold <= 0, getClosestSnap returns the value it was given
\* and snapped = false, for every value and every list of candidates,
\* including lists that contain the value.
C19_ZeroThresholdNoSnap ==
  (snapOut.done /\ SnapThreshold <= 0)
    => (snapOut.val = snapIn.val /\ ~snapOut.snapped)

C19_Witness ==
  /\ snapOut.done
  /\ snapIn.dist = 0
  /\ \E i \in 1..Len(snapIn.lines) : snapIn.lines[i] = snapIn.val

\* C20: with a threshold > 0, getClosestSnap returns snapped = true iff some
\* candidate is at a distance strictly less than the threshold; the line it
\* returns is then at the least distance of all candidates and is the first
\* one at that distance; otherwise it returns the value it was given.
C20_ClosestFirstWins ==
  (snapOut.done /\ SnapThreshold > 0)
    => LET n == Len(snapIn.lines)
           qualifies == \E i \in 1..n : SnapDistance(i) < SnapThreshold
       IN /\ snapOut.snapped <=> qualifies
          /\ IF qualifies
             THEN \E i \in 1..n :
                    /\ snapOut.val = snapIn.lines[i]
                    /\ \A j \in 1..n : SnapDistance(i) <= SnapDistance(j)
                    /\ \A j \in 1..(i - 1) : SnapDistance(j) > SnapDistance(i)
                    /\ \A j \in 1..(i - 1) : snapIn.lines[j] # snapOut.val
             ELSE snapOut.val = snapIn.val

C20_Witness ==
  /\ snapOut.done
  /\ snapIn = [val |-> 5, lines |-> << 0, 10, 20 >>, dist |-> 6]
  /\ snapOut.val = 0 /\ snapOut.snapped

\* the annotation the running pointer-move branch edits: the selected one in
\* the resize branch, the dragged one in the move branch
EditedId ==
  IF resizeHandle # "none" /\ selectedAnnId # NoId THEN selectedAnnId
  ELSE draggingAnnotationId

\* C21: a pointer-move of a move or resize gesture whose annotation is no
\* longer in the list (deleted by the host during the gesture) issues no
\* list replacement: whenever a pointer-move has called onUpdateAnnotations,
\* the annotation it edits is in the list.
C21_StaleTargetNoUpdate ==
  (last = "other" /\ called) => Has(Annotations.boxes, EditedId)

\* C22: right after a pointer-down in Select mode the selection reported to
\* the host is none when it hit empty canvas, and exactly the id of the
\* annotation when it hit an annotation's body.
C22_PointerDownSelects ==
  (gest.active /\ gest.pure /\ gest.moves = 0 /\ gest.mode = "SELECT")
    => /\ gest.kind = "click" => selectedAnnId = NoId
       /\ gest.kind = "move" => (gest.target # NoId /\ selectedAnnId = gest.target)

C22_Witness ==
  /\ gest.active /\ gest.pure /\ gest.moves = 0 /\ gest.mode = "SELECT"
  /\ gest.kind = "move"
  /\ selectedAnnId = gest.target
  /\ Len(Annotations.boxes) >= 2

\* C23: every annotation of the live list has positive width and height,
\* and the pointer-moves of a resize gesture whose computed rectangle has a
\* non-positive width or height issue no update: the list is still the one
\* the gesture started on.
C23_PositiveExtent ==
  /\ \A i \in 1..Len(Annotations.boxes) :
       Annotations.boxes[i].w > 0 /\ Annotations.boxes[i].h > 0
  /\ ( gest.kind = "resize" /\ gest.active /\ gest.pure
       /\ gest.moves >= 1 /\ gest.updates = 0 )
       => (~called /\ Annotations = gest.list0)

C23_Witness ==
  /\ gest.kind = "resize" /\ gest.active /\ gest.pure
  /\ gest.moves >= 1 /\ gest.updates = 0
  /\ Has(Annotations.boxes, gest.target)
  /\ Annotations = gest.list0

\* C24: for every frame and every normalised box with positive width and
\* height, converting the box to a pixel rectangle and that rectangle back
\* returns the same box.
C24_RoundTrip ==
  (tripOut.done /\ tripIn.box.w > 0 /\ tripIn.box.h > 0)
    => tripOut.box = tripIn.box

C24_Witness ==
  /\ tripOut.done
  /\ tripIn.frame = << FrameW, 2 * FrameH >>
  /\ tripOut.rect = Rect(3, 2, 7, 5)
  /\ tripOut.box = tripIn.box

\* C25: every step that pushes an entry on the undo stack, other than a
\* redo, leaves the redo stack empty (a gesture commit at pointer-up and a
\* recorded external change both clear it), so that a redo right after the
\* step finds nothing to replay.
C25_PushClearsRedo ==
  [][ (Len(undoStack') > Len(undoStack) /\ last' # "redo")
        => redoStack' = << >> ]_vars

C25_Witness ==
  /\ last = "mouseUp"
  /\ gest.ended /\ gest.kind = "move"
  /\ gest.redo0 # << >>
  /\ Len(undoStack) = Len(gest.undo0) + 1
  /\ redoStack = << >>

\* the corner of rectangle r that a handle drags, and the one opposite to it
ActiveCorner(handle, r) ==
  << IF handle \in {"tr", "br"} THEN r.x + r.w ELSE r.x,
     IF handle \in {"bl", "br"} THEN r.y + r.h ELSE r.y >>

OppositeCorner(handle, r) ==
  << IF handle \in {"tr", "br"} THEN r.x ELSE r.x + r.w,
     IF handle \in {"bl", "br"} THEN r.y ELSE r.y + r.h >>

\* C26: in a resize gesture with accepted pointer-moves the corner opposite
\* to the active handle is where it was at the pointer-down, the active
\* corner is at the snapped position of the last accepted pointer, and
\* every other annotation (and the id and label of the resized one) is as
\* it was at the pointer-down.
C26_ResizeOppositeFixed ==
  ( /\ gest.kind = "resize" /\ gest.active /\ gest.pure /\ gest.updates >= 1
    /\ Has(Annotations.boxes, gest.target) )
    => LET a0 == gest.list0.boxes
           a == Annotations.boxes
           r0 == yoloToSvg(Find(a0, gest.target), FrameW, FrameH)
           r == yoloToSvg(Find(a, gest.target), FrameW, FrameH)
           lines == getSnapLines(a, gest.target)
           threshold == snapPixelDistance \div Zoom
           sx == getClosestSnap(MouseX(<< gest.at.x, gest.at.y >>), lines.xLines,
                                threshold, snapPixelDistance)
           sy == getClosestSnap(MouseY(<< gest.at.x, gest.at.y >>), lines.yLines,
                                threshold, snapPixelDistance)
       IN /\ OppositeCorner(resizeHandle, r) = OppositeCorner(resizeHandle, r0)
          /\ ActiveCorner(resizeHandle, r) = << sx.val, sy.val >>
          /\ Len(a) = Len(a0)
          /\ \A i \in 1..Len(a) :
               /\ a[i].id = a0[i].id /\ a[i].labelId = a0[i].labelId
               /\ a[i].id # gest.target => a[i] = a0[i]

C26_Witness ==
  /\ gest.kind = "resize" /\ gest.active /\ gest.pure /\ gest.updates >= 1
  /\ resizeHandle = "tr"
  /\ Len(Annotations.boxes) >= 2
  /\ Has(Annotations.boxes, gest.target)
  /\ yoloToSvg(Find(Annotations.boxes, gest.target), FrameW, FrameH) = Rect(4, 8, 4, 4)

\* the lines of the list strictly within the threshold of edge position v
AxisNear(v) ==
  { i \in 1..Len(axisIn.lines) :
      Abs(v - axisIn.lines[i]) < axisIn.dist \div Zoom }

\* position v lies on a line of set near that is closest to edge
AxisOnClosest(v, edge, near) ==
  /\ \E i \in near : axisIn.lines[i] = v
  /\ \A j \in near : Abs(edge - v) <= Abs(edge - axisIn.lines[j])

\* C27: on an axis of a move, if a line is within the threshold of the
\* leading edge the box is placed with that edge on its closest line (also
\* when the trailing edge has a line within the threshold); otherwise, if a
\* line is within the threshold of the trailing edge, with the trailing edge
\* on its closest line; otherwise at the raw translated position.
C27_MoveEdgeSnap ==
  axisOut.done
    => LET lead == axisIn.raw
           trail == axisIn.raw + axisIn.size
       IN IF AxisNear(lead) # {}
          THEN AxisOnClosest(axisOut.pos, lead, AxisNear(lead))
          ELSE IF AxisNear(trail) # {}
          THEN AxisOnClosest(axisOut.pos + axisIn.size, trail, AxisNear(trail))
          ELSE axisOut.pos = axisIn.raw

C27_Witness ==
  /\ axisOut.done
  /\ axisIn = [raw |-> 6, size |-> 8, lines |-> << 16, 4 >>, dist |-> 3]
  /\ AxisNear(6) # {} /\ AxisNear(14) # {}
  /\ axisOut.pos = 4

\* the values of a list of lines
Lines(seq) == { seq[i] : i \in 1..Len(seq) }

\* the pixel rectangles of the annotations other than id
OtherRects(boxes, id) ==
  { yoloToSvg(boxes[i], FrameW, FrameH) : i \in { j \in 1..Len(boxes) : boxes[j].id # id } }

\* the annotation whose edges the pointer-moves of the observed gesture leave
\* out: none while drawing, the edited one in a move or a resize
Excluded == IF gest.kind = "draw" THEN NoId ELSE gest.target

\* C28: the candidate lines of an axis are exactly 0, the frame size and
\* both edges of every annotation other than the excluded one, for every
\* annotation of the live list and for no exclusion (creation); and the
\* guide lines of a draw, move or resize gesture are among the candidates
\* that leave out the edited annotation (none while drawing).
C28_SnapCandidates ==
  /\ \A id \in Ids(Annotations.boxes) \cup {NoId} :
       LET l == getSnapLines(Annotations.boxes, id)
           others == OtherRects(Annotations.boxes, id)
       IN /\ Lines(l.xLines) = {0, FrameW} \cup UNION { {r.x, r.x + r.w} : r \in others }
          /\ Lines(l.yLines) = {0, FrameH} \cup UNION { {r.y, r.y + r.h} : r \in others }
  /\ ( /\ gest.active /\ gest.pure /\ gest.moves >= 1
       /\ \/ gest.kind \in {"move", "resize"}
          \/ gest.kind = "draw" /\ gest.mode = "DRAW" )
       => LET others == OtherRects(Annotations.boxes, Excluded)
          IN /\ Lines(activeSnapLines.x)
                  \subseteq {0, FrameW} \cup UNION { {r.x, r.x + r.w} : r \in others }
             /\ Lines(activeSnapLines.y)
                  \subseteq {0, FrameH} \cup UNION { {r.y, r.y + r.h} : r \in others }

C28_Witness ==
  /\ gest.active /\ gest.pure /\ gest.moves >= 1 /\ gest.kind = "move"
  /\ Len(Annotations.boxes) >= 2
  /\ Has(Annotations.boxes, gest.target)
  /\ activeSnapLines.x = << 4 >>
  /\ yoloToSvg(Find(Annotations.boxes, gest.target), FrameW, FrameH).x = 4

\* no gesture is in progress, by the test of lines 284-286
IdleGesture == ~isDragging /\ resizeHandle = "none" /\ draggingAnnotationId = NoId

\* C29: with no gesture in progress both guide lines are cleared, and after
\* a pointer-move a guide line is shown on an axis only if that pointer-move
\* snapped on the axis.
C29_GuideLines ==
  /\ IdleGesture => activeSnapLines = NoLines
  /\ moveSnap.move
       => /\ activeSnapLines.x # << >> => moveSnap.x
          /\ activeSnapLines.y # << >> => moveSnap.y

\* the Canvas as a pointer-up leaves it: no gesture state, no suppression
Idle == ~Populated /\ ~isHistoryAction

\* C30: a pointer-move processed while the Canvas is idle changes neither
\* the annotation lists, nor the pan offset, nor the selection, nor the undo
\* and redo stacks, in whatever tool mode.
C30_IdleMoveNoEffect ==
  [][ (Idle /\ moveSnap'.move)
        => UNCHANGED << images, pan, selectedAnnId, undoStack, redoStack >> ]_vars

C30_Witness ==
  /\ moveSnap.move
  /\ Idle
  /\ toolMode = "DRAW"
  /\ selectedAnnId # NoId
  /\ undoStack # << >>

\* a step that runs a pointer handler: down, move, up or leave
PointerStep ==
  events' # events /\ (PointerDownStep \/ moveSnap'.move \/ last' = "mouseUp")

\* C31: no pointer handler removes an annotation: after a pointer-down,
\* pointer-move, pointer-up or pointer-leave the live list holds every id
\* it held before, at the same positions (a new annotation is appended),
\* and the lists of the other images are untouched.
C31_PointerKeepsAnnotations ==
  [][ PointerStep
        => /\ imageId' = imageId
           /\ Len(Annotations'.boxes) >= Len(Annotations.boxes)
           /\ \A i \in 1..Len(Annotations.boxes) :
                Annotations'.boxes[i].id = Annotations.boxes[i].id
           /\ \A j \in ImageIds : j # imageId => images'[j] = images[j] ]_vars

C31_Witness ==
  /\ moveSnap.move /\ called
  /\ gest.kind = "move" /\ gest.active /\ gest.pure /\ gest.updates >= 1
  /\ Len(Annotations.boxes) >= 2
  /\ Annotations.boxes # gest.list0.boxes

\* C32: after the pointer-moves of a creation gesture in Draw mode the
\* preview rectangle has non-negative width and height; on each axis it
\* spans from the anchor recorded (unsnapped) at pointer-down to the snapped
\* position of the last pointer, with x, y the smaller coordinate and w, h
\* the absolute difference; and the annotation list is still the one of the
\* pointer-down.
C32_CreationPreview ==
  ( /\ gest.kind = "draw" /\ gest.mode = "DRAW" /\ gest.active /\ gest.pure
    /\ gest.moves >= 1 )
    => LET lines == getSnapLines(Annotations.boxes, NoId)
           threshold == snapPixelDistance \div Zoom
           cx == getClosestSnap(MouseX(<< gest.at.x, gest.at.y >>), lines.xLines,
                                threshold, snapPixelDistance).val
           cy == getClosestSnap(MouseY(<< gest.at.x, gest.at.y >>), lines.yLines,
                                threshold, snapPixelDistance).val
           ax == gest.down.x
           ay == gest.down.y
       IN /\ activeCreation.set
          /\ activeCreation.w >= 0 /\ activeCreation.h >= 0
          /\ {activeCreation.x, activeCreation.x + activeCreation.w} = {ax, cx}
          /\ {activeCreation.y, activeCreation.y + activeCreation.h} = {ay, cy}
          /\ ~called /\ gest.updates = 0
          /\ Annotations = gest.list0

C32_Witness ==
  /\ gest.kind = "draw" /\ gest.mode = "DRAW" /\ gest.active /\ gest.pure
  /\ gest.moves >= 1
  /\ activeCreation.set
  /\ activeCreation.x < dragStart.x /\ activeCreation.y < dragStart.y
  /\ activeCreation.w > 0

\* C33: an effective undo moves exactly one snapshot from the undo stack to
\* the redo stack and an effective redo one the other way, so the sum of
\* their lengths is unchanged; and an undo followed immediately by a redo,
\* or a redo followed immediately by an undo, leaves the annotation list,
\* the undo stack and the redo stack exactly as they were before the two.
C33_UndoRedoConserve ==
  /\ pair.op = "undo"
       => /\ Len(undoStack) = Len(pair.undo) - 1
          /\ Len(redoStack) = Len(pair.redo) + 1
  /\ pair.op = "redo"
       => /\ Len(undoStack) = Len(pair.undo) + 1
          /\ Len(redoStack) = Len(pair.redo) - 1
  /\ pair.op \in {"undoRedo", "redoUndo"}
       => /\ Annotations = pair.list
          /\ undoStack = pair.undo
          /\ redoStack = pair.redo

C33_Witness ==
  /\ pair.op = "undoRedo"
  /\ last = "redo"
  /\ Len(undoStack) >= 2
  /\ Annotations = pair.list
  /\ undoStack = pair.undo

\* C34: the replay flag covers only the list change of the undo or redo that
\* raised it: whenever the history effect has no change left to detect (the
\* live list is the one prevAnnotationsRef holds, on the image it tracks)
\* the flag is down, so that the next external change is recorded.
C34_ReplayFlagDown ==
  (prevImageIdRef = imageId /\ Annotations.ref = prevAnnotationsRef.ref)
    => ~isUndoRedo

\* C35: the list change of an effective undo or redo made between a
\* pointer-down and its pointer-up is not taken for a change of the gesture:
\* the pointer-up that follows it (and creates no annotation) pushes nothing
\* on the undo stack and leaves the redo stack as the undo or redo left it.
C35_UndoInGestureNotCommitted ==
  [][ ( /\ last \in {"undo", "redo"} /\ pair.op # "none"
        /\ isHistoryAction
        /\ last' = "mouseUp" /\ ~called' )
        => (undoStack' = undoStack /\ redoStack' = redoStack) ]_vars

\* C36: a list replacement by the host (Delete, auto-label) that arrives
\* during a Draw or Select gesture is folded into the entry of the gesture:
\* after the pointer-up that follows it, the list of the pointer-down is on
\* top of the undo stack.
C36_ExternalChangeFolded ==
  [][ ( /\ isHistoryAction /\ last \in {"delete", "autoLabel"}
        /\ last' = "mouseUp" )
        => ( /\ undoStack' # << >>
             /\ undoStack'[Len(undoStack')] = dragStartAnnotationsRef ) ]_vars

\* C37: the selected annotation id is none or the id of an annotation of
\* the live list of the current image.
C37_SelectionInList ==
  selectedAnnId = NoId \/ Has(Annotations.boxes, selectedAnnId)


\* C38: in every run of image selections, image loads and annotation
\* updates, the list stored under an image id is a list derived from the
\* record of that image, never the list of another image.
C38_StoredUnderOwnImage ==
  \A i \in ImageIds : stored[i].img = i


\* C39: when the user changed the annotations of an image between the batch's
\* read of that image and its write of the merged list, the stored list, and
\* the displayed list if that image is shown, hold the user's change (a
\* deleted box is absent, an added box is present) and the boxes the model
\* returned.
C39_BatchKeepsUserEdit ==
  LET e == lastMerge.edit
      Keeps(list) ==
        /\ e.kind = "delete" => ~Has(list.boxes, e.box)
        /\ e.kind = "add" => Has(list.boxes, e.box)
        /\ lastMerge.added \subseteq Ids(list.boxes)
  IN (lastMerge.img # NoId /\ e.kind # "none") =>
       /\ Keeps(stored[lastMerge.img])
       /\ currentImage.id = lastMerge.img => Keeps(currentImage.annotations)

====
